---- MODULE Spec2Model ----
(***************************************************************************)
(* Hospital length-of-stay monitor (src/src/app.py).                       *)
(*                                                                         *)
(* The model holds the two SQLite tables of hospital.db (patients and      *)
(* los_tracking, each a sequence of rows in rowid order), the wall clock,  *)
(* the LOSMonitor objects (running flag, monitor_thread) and the threads   *)
(* that execute LOSMonitor.monitor_loop.                                   *)
(*                                                                         *)
(* Units.  The clock counts ticks of 8 hours (the backfill step of         *)
(* generate_sample_data), so a day is TicksPerDay ticks.  A datetime is    *)
(* stored in the tables as ISO text: IsoFormat writes it as a fixed-width  *)
(* digit string, SQL compares the text, ParseIso reads it back.  A length  *)
(* of stay in days is the rational <<ticks, TicksPerDay>>.  Vital signs    *)
(* are integers: heart rate and blood pressure in units, temperature in    *)
(* tenths of a degree, oxygen saturation in halves of a percent.  A normal *)
(* variate is mean + sigma * z for a standardised draw z taken from a      *)
(* small table.                                                            *)
(***************************************************************************)
EXTENDS Integers, Sequences, FiniteSets, TLC

VARIABLES patients, los_tracking, now, ret, session_state, running, monitor_thread,
          joining, threads, faults, appended

vars == <<patients, los_tracking, now, ret, session_state, running, monitor_thread,
          joining, threads, faults, appended>>

---------------------------------------------------------------------------
(* Bounds of the model *)

StartTime == 3
MaxTime == 4
MaxBackfill == 4
MaxAppends == 2
MaxDirect == 3
MaxSeed == 1
SampleCount == 1
MaxMonitors == 1
MaxThreads == 2
MaxFaults == 1

(* Program constants *)

TicksPerDay == 3
Radix == 10
MaxDaysAgo == 3
MinSeverity == 1
MaxSeverity == 5
MinPredictedLos == 3
SleepInterval == 300
SleepBackoff == 60
OxygenCap == 2 * 100

None == <<>>

Times == 0..MaxTime

Min(a, b) == IF a <= b THEN a ELSE b

Max(a, b) == IF a >= b THEN a ELSE b

---------------------------------------------------------------------------
(* datetime <-> ISO text, and the text order SQLite applies to TEXT columns *)

IsoFormat(t) == <<t \div Radix, t % Radix>>

ParseIso(s) == s[1] * Radix + s[2]

RECURSIVE TextLess(_, _)
TextLess(a, b) ==
    IF b = <<>> THEN FALSE
    ELSE IF a = <<>> THEN TRUE
    ELSE IF a[1] # b[1] THEN a[1] < b[1]
    ELSE TextLess(Tail(a), Tail(b))

TotalDays(ticks) == <<ticks, TicksPerDay>>

Str(v) == <<v.heart_rate, v.blood_pressure, v.temperature, v.oxygen_saturation>>

Eval(s) == [heart_rate |-> s[1], blood_pressure |-> s[2],
            temperature |-> s[3], oxygen_saturation |-> s[4]]

---------------------------------------------------------------------------
(* DatabaseManager: the tables and the statements run on them *)

EmptyTable == <<>>

PatientRow(p) ==
    [id |-> p.id,
     admission_date |-> IsoFormat(p.admission_date),
     predicted_los |-> p.predicted_los,
     department |-> p.department,
     diagnosis |-> p.diagnosis,
     age |-> p.age,
     gender |-> p.gender,
     insurance |-> p.insurance,
     severity |-> p.severity,
     status |-> p.status,
     discharge_date |-> IF p.discharge_date # None
                        THEN IsoFormat(p.discharge_date[1]) ELSE None]

HasId(tbl, id) == \E i \in DOMAIN tbl : tbl[i].id = id

(* INSERT OR REPLACE instead of INSERT: no primary-key error. *)
add_patient_replacing(tbl, p) ==
    [exc |-> "none",
     patients |-> Append(SelectSeq(tbl, LAMBDA r : r.id # p.id), PatientRow(p))]

add_patient(tbl, p) ==
    IF HasId(tbl, p.id)
    THEN [exc |-> "IntegrityError", patients |-> tbl]
    ELSE [exc |-> "none", patients |-> Append(tbl, PatientRow(p))]

TrackingRow(patient_id, tracking_date, current_los, vital_signs) ==
    [patient_id |-> patient_id,
     tracking_date |-> IsoFormat(tracking_date),
     current_los |-> current_los,
     vital_signs |-> Str(vital_signs)]

add_tracking_record(trk, patient_id, tracking_date, current_los, vital_signs) ==
    Append(trk, TrackingRow(patient_id, tracking_date, current_los, vital_signs))

---------------------------------------------------------------------------
(* The random module: a call of generate_sample_data runs on one seed, and  *)
(* the draw at position pos for patient i is a fixed function of the seed.  *)

Rand(seed, i, pos) == seed * (12 * pos + 1) + (i - 1) + 12 * pos

randint(lo, hi, r) == lo + (r % (hi - lo + 1))

choice(seq, r) == seq[1 + (r % Len(seq))]

ZTable == <<0, 3, -1, 1>>

normalvariate(mu, sigma, z) == mu + sigma * z

LosZTable == <<0, -2, 2>>

np_normal(mu, r) == mu + (3 * choice(LosZTable, r)) \div 2

departments == <<"Cardiology", "Orthopedics", "General Medicine">>

diagnoses(department) ==
    CASE department = "Cardiology" -> <<"Heart Failure", "Myocardial Infarction">>
      [] department = "Orthopedics" -> <<"Hip Fracture", "Knee Replacement">>
      [] OTHER -> <<"Pneumonia", "Diabetes">>

insurance_types == <<"Medicare", "Medicaid", "Private">>

genders == <<"Male", "Female">>

SampleIds == <<"P001", "P002", "P003", "P004", "P005">>

(* The snapshot drawn from scratch (lines 155-160 and 278-283). z is the    *)
(* tuple of the four standardised draws.                                     *)
FreshVitals(z) ==
    [heart_rate |-> normalvariate(75, 5, z[1]),
     blood_pressure |-> normalvariate(120, 10, z[2]),
     temperature |-> normalvariate(370, 3, z[3]),
     oxygen_saturation |-> Min(OxygenCap, normalvariate(196, 2, z[4]))]

SampleDraw(seed, i, j) ==
    <<choice(ZTable, Rand(seed, i, 4 * j + 8)), choice(ZTable, Rand(seed, i, 4 * j + 9)),
      choice(ZTable, Rand(seed, i, 4 * j + 10)), choice(ZTable, Rand(seed, i, 4 * j + 11))>>

SamplePatient(seed, i, clock) ==
    LET department == choice(departments, Rand(seed, i, 0))
        severity == randint(MinSeverity, MaxSeverity, Rand(seed, i, 1))
        base_los == severity * 2
        predicted_los == Max(MinPredictedLos, np_normal(base_los, Rand(seed, i, 2)))
        days_ago == randint(0, MaxDaysAgo, Rand(seed, i, 3))
    IN  [id |-> SampleIds[i],
         admission_date |-> clock - days_ago * TicksPerDay,
         predicted_los |-> predicted_los,
         department |-> department,
         diagnosis |-> choice(diagnoses(department), Rand(seed, i, 4)),
         age |-> randint(25, 85, Rand(seed, i, 5)),
         gender |-> choice(genders, Rand(seed, i, 6)),
         insurance |-> choice(insurance_types, Rand(seed, i, 7)),
         severity |-> severity,
         status |-> "Active",
         discharge_date |-> None]

(* The backfill loop of lines 150-169: one record every 8 hours from the    *)
(* admission up to the current time.                                         *)
RECURSIVE Backfill(_, _, _, _, _, _, _)
Backfill(trk, p, tracking_time, current_time, seed, i, j) ==
    IF tracking_time <= current_time
    THEN Backfill(add_tracking_record(trk, p.id, tracking_time,
                                      TotalDays(tracking_time - p.admission_date),
                                      FreshVitals(SampleDraw(seed, i, j))),
                  p, tracking_time + 1, current_time, seed, i, j + 1)
    ELSE trk

(* generate_sample_data from patient i on; an IntegrityError of add_patient *)
(* leaves the loop with what the earlier iterations committed.               *)
RECURSIVE GenerateFrom(_, _, _, _, _)
GenerateFrom(i, tbl, trk, seed, clock) ==
    IF i > SampleCount
    THEN [exc |-> "none", patients |-> tbl, los_tracking |-> trk]
    ELSE LET p == SamplePatient(seed, i, clock)
             r == add_patient(tbl, p)
         IN  IF r.exc # "none"
             THEN [exc |-> r.exc, patients |-> tbl, los_tracking |-> trk]
             ELSE GenerateFrom(i + 1, r.patients,
                               Backfill(trk, p, p.admission_date, clock, seed, i, 0),
                               seed, clock)

generate_sample_data(tbl, trk, seed, clock) == GenerateFrom(1, tbl, trk, seed, clock)

---------------------------------------------------------------------------
(* Queries *)

(* The WHERE status = 'Active' clause left out. *)
IsActive_any(r) == r.status = r.status

IsActive(r) == r.status = "Active"

(* ORDER BY admission_date DESC on the TEXT column: rows with the same text *)
(* stay in rowid order.                                                      *)
RECURSIVE InsertDesc(_, _)
InsertDesc(sorted, r) ==
    IF sorted = <<>> THEN <<r>>
    ELSE IF TextLess(Head(sorted).admission_date, r.admission_date)
         THEN <<r>> \o sorted
         ELSE <<Head(sorted)>> \o InsertDesc(Tail(sorted), r)

RECURSIVE OrderByAdmissionDesc(_)
OrderByAdmissionDesc(rows) ==
    IF rows = <<>> THEN <<>>
    ELSE InsertDesc(OrderByAdmissionDesc(SubSeq(rows, 1, Len(rows) - 1)), rows[Len(rows)])

to_datetime(text) == IF text = None THEN None ELSE <<ParseIso(text)>>

(* The ORDER BY admission_date DESC clause left out. *)
get_all_active_patients_rowid(tbl) ==
    LET rows == SelectSeq(tbl, IsActive)
    IN  [i \in DOMAIN rows |->
            [rows[i] EXCEPT !.admission_date = to_datetime(rows[i].admission_date),
                            !.discharge_date = to_datetime(rows[i].discharge_date)]]

get_all_active_patients(tbl) ==
    LET rows == OrderByAdmissionDesc(SelectSeq(tbl, IsActive))
    IN  [i \in DOMAIN rows |->
            [rows[i] EXCEPT !.admission_date = to_datetime(rows[i].admission_date),
                            !.discharge_date = to_datetime(rows[i].discharge_date)]]

(* GROUP BY department over the active rows; a mean is the fraction          *)
(* <<sum, count>>.                                                            *)
RECURSIVE GroupByDepartment(_, _)
GroupByDepartment(rows, groups) ==
    IF rows = <<>> THEN groups
    ELSE LET r == Head(rows)
             hit == {g \in DOMAIN groups : groups[g].department = r.department}
         IN  IF hit = {}
             THEN GroupByDepartment(Tail(rows),
                      Append(groups, [department |-> r.department, n |-> 1,
                                      sum_los |-> r.predicted_los,
                                      sum_sev |-> r.severity]))
             ELSE LET g == CHOOSE x \in hit : TRUE
                  IN  GroupByDepartment(Tail(rows),
                          [groups EXCEPT ![g].n = @ + 1,
                                         ![g].sum_los = @ + r.predicted_los,
                                         ![g].sum_sev = @ + r.severity])

get_department_stats(tbl) ==
    LET groups == GroupByDepartment(SelectSeq(tbl, IsActive), <<>>)
    IN  [g \in DOMAIN groups |->
            [department |-> groups[g].department,
             patient_count |-> groups[g].n,
             avg_predicted_los |-> <<groups[g].sum_los, groups[g].n>>,
             avg_severity |-> <<groups[g].sum_sev, groups[g].n>>]]

(* SELECT MAX(tracking_date) FROM los_tracking WHERE patient_id = id: the    *)
(* greatest text, None when the patient has no row.                          *)
RECURSIVE MaxTrackingDate(_, _, _)
MaxTrackingDate(trk, id, best) ==
    IF trk = <<>> THEN best
    ELSE LET t == Head(trk)
         IN  MaxTrackingDate(Tail(trk), id,
                 IF t.patient_id = id /\ (best = None \/ TextLess(best, t.tracking_date))
                 THEN t.tracking_date ELSE best)

(* The rows of patients JOIN los_tracking that the WHERE clause of           *)
(* get_los_distribution keeps, as pairs <<patient row, tracking row>> of     *)
(* row numbers.                                                              *)
RECURSIVE LosJoin(_, _, _, _)
LosJoin(tbl, trk, i, j) ==
    IF i > Len(tbl) THEN <<>>
    ELSE IF j > Len(trk) THEN LosJoin(tbl, trk, i + 1, 1)
    ELSE LET keep == /\ tbl[i].id = trk[j].patient_id
                     /\ tbl[i].status = "Active"
                     /\ trk[j].tracking_date = MaxTrackingDate(trk, tbl[i].id, None)
         IN  (IF keep THEN <<(<<i, j>>)>> ELSE <<>>) \o LosJoin(tbl, trk, i, j + 1)

get_los_distribution(tbl, trk) ==
    LET join == LosJoin(tbl, trk, 1, 1)
    IN  [k \in DOMAIN join |->
            [department |-> tbl[join[k][1]].department,
             current_los |-> trk[join[k][2]].current_los]]

(* ORDER BY tracking_date on the TEXT column: rows with the same text stay  *)
(* in rowid order.                                                           *)
RECURSIVE InsertAsc(_, _)
InsertAsc(sorted, r) ==
    IF sorted = <<>> THEN <<r>>
    ELSE IF TextLess(r.tracking_date, Head(sorted).tracking_date)
         THEN <<r>> \o sorted
         ELSE <<Head(sorted)>> \o InsertAsc(Tail(sorted), r)

RECURSIVE OrderByTrackingDate(_)
OrderByTrackingDate(rows) ==
    IF rows = <<>> THEN <<>>
    ELSE InsertAsc(OrderByTrackingDate(SubSeq(rows, 1, Len(rows) - 1)), rows[Len(rows)])

(* The three columns the history query selects, tracking_date parsed. *)
HistoryRow(r) ==
    [tracking_date |-> to_datetime(r.tracking_date),
     current_los |-> r.current_los,
     vital_signs |-> r.vital_signs]

(* The ORDER BY tracking_date clause left out. *)
get_patient_data_unordered(tbl, trk, patient_id) ==
    LET patient_df == SelectSeq(tbl, LAMBDA r : r.id = patient_id)
        los_df == SelectSeq(trk, LAMBDA r : r.patient_id = patient_id)
    IN  <<IF patient_df # <<>>
          THEN <<[patient_df[1] EXCEPT
                     !.admission_date = to_datetime(patient_df[1].admission_date),
                     !.discharge_date = to_datetime(patient_df[1].discharge_date)]>>
          ELSE None,
          [k \in DOMAIN los_df |-> HistoryRow(los_df[k])]>>

(* get_patient_data returns the pair (patient row or None, history). *)
get_patient_data(tbl, trk, patient_id) ==
    LET patient_df == SelectSeq(tbl, LAMBDA r : r.id = patient_id)
        los_df == OrderByTrackingDate(SelectSeq(trk, LAMBDA r : r.patient_id = patient_id))
    IN  <<IF patient_df # <<>>
          THEN <<[patient_df[1] EXCEPT
                     !.admission_date = to_datetime(patient_df[1].admission_date),
                     !.discharge_date = to_datetime(patient_df[1].discharge_date)]>>
          ELSE None,
          [k \in DOMAIN los_df |-> HistoryRow(los_df[k])]>>

---------------------------------------------------------------------------
(* LOSMonitor *)

calculate_current_los(admission_date, clock) == TotalDays(clock - admission_date[1])

(* The min(100, ...) of line 275 left out. *)
PerturbedVitals_uncapped(b, z) ==
    [heart_rate |-> b.heart_rate + normalvariate(0, 2, z[1]),
     blood_pressure |-> b.blood_pressure + normalvariate(0, 3, z[2]),
     temperature |-> b.temperature + normalvariate(0, 1, z[3]),
     oxygen_saturation |-> b.oxygen_saturation + normalvariate(0, 1, z[4])]

PerturbedVitals(b, z) ==
    [heart_rate |-> b.heart_rate + normalvariate(0, 2, z[1]),
     blood_pressure |-> b.blood_pressure + normalvariate(0, 3, z[2]),
     temperature |-> b.temperature + normalvariate(0, 1, z[3]),
     oxygen_saturation |-> Min(OxygenCap, b.oxygen_saturation + normalvariate(0, 1, z[4]))]

(* The baseline ignored: every snapshot drawn from scratch. *)
generate_vital_signs_fresh(baseline_vitals, z) == FreshVitals(z)

(* baseline_vitals is None or <<snapshot>>. *)
generate_vital_signs(baseline_vitals, z) ==
    IF baseline_vitals # None THEN PerturbedVitals(baseline_vitals[1], z) ELSE FreshVitals(z)

---------------------------------------------------------------------------
(* State *)

Monitors == 1..MaxMonitors

Threads == 1..MaxThreads

NoCall == [op |-> "none", id |-> "", exc |-> "none"]

EmptyCache == [id \in {} |-> None]

(* A thread running monitor_loop: its position, the locals active_patients, *)
(* the row index of the for loop, current_los and vital_signs_cache, the    *)
(* argument of the pending time.sleep and whether the except clause ran.    *)
(* fresh records that line 299 filled the cache entry in this iteration.    *)
NoThread ==
    [owner |-> 0, pc |-> "unborn", active |-> <<>>, idx |-> 0, current_los |-> None,
     cache |-> EmptyCache, fresh |-> FALSE, secs |-> 0, exc |-> FALSE]

(* The draws of one generate_vital_signs call in the monitoring thread. *)
Draws == {<<0, 0, 0, 0>>, <<1, -1, 1, 3>>}

(* The draws of the perturbation step of one iteration. *)
PDraws == {<<1, -1, 1, 1>>}

Seeds == 0..MaxSeed

TestPatient(id, admission_date, predicted_los, department, severity, status, discharge_date) ==
    [id |-> id, admission_date |-> admission_date, predicted_los |-> predicted_los,
     department |-> department, diagnosis |-> "Test Diagnosis", age |-> 50,
     gender |-> "Male", insurance |-> "Test Insurance", severity |-> severity,
     status |-> status, discharge_date |-> discharge_date]

(* Patient objects handed to add_patient. *)
AppInputs ==
    {TestPatient("TEST001", StartTime - 1, 5, "Cardiology", 3, "Active", None),
     TestPatient("TEST002", StartTime - 2, 7, "Cardiology", 4, "Discharged", <<StartTime>>)}

PatientInputs ==
    AppInputs \cup
    {TestPatient("TEST001", StartTime, 6, "Orthopedics", 2, "Active", None),
     TestPatient("TEST003", StartTime + 1, 0, "Cardiology", 6, "Active", <<StartTime - 1>>)}

(* Arguments handed to add_tracking_record. *)
TrackingInputs ==
    {<<"TEST001", StartTime, TotalDays(1), FreshVitals(<<0, 0, 0, 0>>)>>,
     <<"TEST001", StartTime, TotalDays(2), FreshVitals(<<0, 0, 0, 0>>)>>,
     <<"TEST001", StartTime - 1, TotalDays(0), FreshVitals(<<0, 0, 0, 0>>)>>,
     <<"TEST002", StartTime, TotalDays(2), FreshVitals(<<0, 0, 0, 0>>)>>}

Init ==
    /\ patients = EmptyTable
    /\ los_tracking = EmptyTable
    /\ now = StartTime
    /\ ret = NoCall
    /\ session_state = {}
    /\ running = [m \in Monitors |-> FALSE]
    /\ monitor_thread = [m \in Monitors |-> 0]
    /\ joining = [m \in Monitors |-> 0]
    /\ threads = [t \in Threads |-> NoThread]
    /\ faults = 0
    /\ appended = 0

---------------------------------------------------------------------------
(* Store operations called directly *)

(* DatabaseManager.__init__ -> setup_database: both tables are dropped and created. *)
setup_database == [patients |-> EmptyTable, los_tracking |-> EmptyTable]

NewDatabaseManager ==
    /\ patients' = setup_database.patients
    /\ los_tracking' = setup_database.los_tracking
    /\ ret' = [op |-> "DatabaseManager", id |-> "", exc |-> "none"]
    /\ UNCHANGED <<now, session_state, running, monitor_thread, joining, threads, faults, appended>>

(* add_patient called on the store; the caller's view of the outcome is ret. *)
AddPatient(p) ==
    LET r == add_patient(patients, p)
    IN  /\ patients' = r.patients
        /\ ret' = [op |-> "add_patient", id |-> p.id, exc |-> r.exc]
        /\ UNCHANGED <<los_tracking, now, session_state, running, monitor_thread, joining, threads, faults, appended>>

(* An admission while the application runs: add_patient with nobody         *)
(* recording the outcome.                                                    *)
Admit(p) ==
    /\ patients' = add_patient(patients, p).patients
    /\ UNCHANGED <<los_tracking, now, ret, session_state, running, monitor_thread, joining,
                   threads, faults, appended>>

AddTrackingRecord(in) ==
    /\ Len(los_tracking) < MaxDirect
    /\ los_tracking' = add_tracking_record(los_tracking, in[1], in[2], in[3], in[4])
    /\ ret' = [op |-> "add_tracking_record", id |-> in[1], exc |-> "none"]
    /\ UNCHANGED <<patients, now, session_state, running, monitor_thread, joining, threads, faults, appended>>

(* The clock value and table size a call of generate_sample_data needs to be *)
(* representable within the bounds.                                           *)
Fits(r) ==
    /\ Len(r.los_tracking) <= MaxBackfill
    /\ \A i \in DOMAIN r.patients : Len(r.patients[i].admission_date) = 2

GenerateSampleData(seed) ==
    LET r == generate_sample_data(patients, los_tracking, seed, now)
    IN  /\ \A i \in 1..SampleCount : SamplePatient(seed, i, now).admission_date >= 0
        /\ Fits(r)
        /\ patients' = r.patients
        /\ los_tracking' = r.los_tracking
        /\ ret' = [op |-> "generate_sample_data", id |-> "", exc |-> r.exc]
        /\ UNCHANGED <<now, session_state, running, monitor_thread, joining, threads, faults, appended>>

Tick ==
    /\ now < MaxTime
    /\ now' = now + 1
    /\ UNCHANGED ret
    /\ UNCHANGED <<patients, los_tracking, session_state, running, monitor_thread, joining, threads, faults, appended>>

NextStore ==
    \/ NewDatabaseManager
    \/ \E p \in PatientInputs : AddPatient(p)
    \/ \E in \in TrackingInputs : AddTrackingRecord(in)
    \/ \E seed \in Seeds : GenerateSampleData(seed)

SpecStore == Init /\ [][NextStore]_vars

---------------------------------------------------------------------------
(* LOSMonitor.start, LOSMonitor.stop and main *)

Unborn == {t \in Threads : threads[t].pc = "unborn"}

NewThread == CHOOSE t \in Unborn : \A u \in Unborn : t <= u

(* start(): set the flag, create and start the thread (lines 322-327). *)
start(m) ==
    /\ running' = [running EXCEPT ![m] = TRUE]
    /\ threads' = [threads EXCEPT ![NewThread] = [NoThread EXCEPT !.owner = m, !.pc = "top"]]
    /\ monitor_thread' = [monitor_thread EXCEPT ![m] = NewThread]

Start(m) ==
    /\ m \in session_state
    /\ joining[m] = 0
    /\ Unborn # {}
    /\ start(m)
    /\ UNCHANGED ret
    /\ UNCHANGED <<patients, los_tracking, now, session_state, joining, faults, appended>>

(* stop(): clear the flag, then join monitor_thread if the attribute exists. *)
Stop(m) ==
    /\ m \in session_state
    /\ joining[m] = 0
    /\ running' = [running EXCEPT ![m] = FALSE]
    /\ joining' = [joining EXCEPT ![m] = monitor_thread[m]]
    /\ UNCHANGED ret
    /\ UNCHANGED <<patients, los_tracking, now, session_state, monitor_thread, threads, faults, appended>>

(* join() returns: the joined thread has finished. *)
StopReturn(m) ==
    /\ joining[m] # 0
    /\ threads[joining[m]].pc = "exited"
    /\ joining' = [joining EXCEPT ![m] = 0]
    /\ UNCHANGED ret
    /\ UNCHANGED <<patients, los_tracking, now, session_state, running, monitor_thread, threads, faults, appended>>

(* initialize_database (lines 625-639): a DatabaseManager is constructed     *)
(* and sample data is generated when there is no active patient.             *)
initialize_database(seed, clock) ==
    LET db == setup_database
    IN  IF Len(get_all_active_patients(db.patients)) = 0
        THEN generate_sample_data(db.patients, db.los_tracking, seed, clock)
        ELSE [exc |-> "none", patients |-> db.patients, los_tracking |-> db.los_tracking]

(* The first script run of a session (main, lines 658-671). *)
Main(m, seed) ==
    LET r == initialize_database(seed, now)
    IN  /\ m \notin session_state
        /\ Unborn # {}
        /\ \A i \in 1..SampleCount : SamplePatient(seed, i, now).admission_date >= 0
        /\ Fits(r)
        /\ r.exc = "none"
        /\ patients' = r.patients
        /\ los_tracking' = r.los_tracking
        /\ session_state' = session_state \cup {m}
        /\ start(m)
        /\ UNCHANGED ret
        /\ UNCHANGED <<now, joining, faults, appended>>

---------------------------------------------------------------------------
(* LOSMonitor.monitor_loop, one action per step of the thread *)

(* No try/except around the cycle: an exception ends the thread. *)
Sleep_uncaught(th, secs, exc) ==
    IF exc
    THEN [th EXCEPT !.pc = "exited", !.active = <<>>, !.idx = 0, !.current_los = None,
                    !.fresh = FALSE]
    ELSE [th EXCEPT !.pc = "sleep", !.secs = secs, !.exc = exc, !.active = <<>>, !.idx = 0,
                    !.current_los = None, !.fresh = FALSE]

Sleep(th, secs, exc) ==
    [th EXCEPT !.pc = "sleep", !.secs = secs, !.exc = exc, !.active = <<>>, !.idx = 0,
               !.current_los = None, !.fresh = FALSE]

(* The thread starts or its sleep returns, and `while self.running` is       *)
(* evaluated; when it holds the cycle begins with the fetch of line 292.     *)
LoopTop(t) ==
    LET th == threads[t]
        rows == get_all_active_patients(patients)
    IN  /\ th.pc \in {"top", "sleep"}
        /\ threads' = [threads EXCEPT ![t] =
              IF ~running[th.owner]
              THEN [NoThread EXCEPT !.owner = th.owner, !.pc = "exited"]
              ELSE IF Len(rows) = 0
                   THEN Sleep(th, SleepInterval, FALSE)
                   ELSE [th EXCEPT !.pc = "iter", !.active = rows, !.idx = 1,
                                   !.secs = 0, !.exc = FALSE]]
        /\ UNCHANGED ret
        /\ UNCHANGED <<patients, los_tracking, now, session_state, running, monitor_thread,
                       joining, faults, appended>>

(* get_all_active_patients raises: the except clause logs and sleeps. *)
FetchError(t) ==
    LET th == threads[t]
    IN  /\ th.pc \in {"top", "sleep"}
        /\ running[th.owner]
        /\ faults < MaxFaults
        /\ faults' = faults + 1
        /\ threads' = [threads EXCEPT ![t] = Sleep(th, SleepBackoff, TRUE)]
        /\ UNCHANGED ret
        /\ UNCHANGED <<patients, los_tracking, now, session_state, running, monitor_thread,
                       joining, appended>>

(* Lines 295-299: current_los, and a fresh baseline when none is cached. *)
Baseline(t) ==
    LET th == threads[t]
        patient == th.active[th.idx]
        los == calculate_current_los(patient.admission_date, now)
    IN  /\ th.pc = "iter"
        /\ \/ /\ patient.id \notin DOMAIN th.cache
              /\ \E z \in Draws :
                    threads' = [threads EXCEPT ![t] =
                        [th EXCEPT !.pc = "append", !.current_los = los, !.fresh = TRUE,
                                   !.cache = (patient.id :> generate_vital_signs(None, z))
                                             @@ th.cache]]
           \/ /\ patient.id \in DOMAIN th.cache
              /\ threads' = [threads EXCEPT ![t] =
                    [th EXCEPT !.pc = "append", !.current_los = los, !.fresh = FALSE]]
        /\ UNCHANGED ret
        /\ UNCHANGED <<patients, los_tracking, now, session_state, running, monitor_thread,
                       joining, faults, appended>>

(* The thread after the body of the for loop: the next row, or the sleep of  *)
(* line 316 after the last one.                                              *)
(* Line 303 left out: the cache keeps the baseline it had. *)
NextRow_stale(th, cache) ==
    IF th.idx = Len(th.active)
    THEN Sleep(th, SleepInterval, FALSE)
    ELSE [th EXCEPT !.pc = "iter", !.idx = th.idx + 1,
                    !.current_los = None, !.fresh = FALSE]

(* The for loop left after its first row. *)
NextRow_first_only(th, cache) ==
    [Sleep(th, SleepInterval, FALSE) EXCEPT !.cache = cache]

NextRow(th, cache) ==
    IF th.idx = Len(th.active)
    THEN [Sleep(th, SleepInterval, FALSE) EXCEPT !.cache = cache]
    ELSE [th EXCEPT !.pc = "iter", !.idx = th.idx + 1, !.cache = cache,
                    !.current_los = None, !.fresh = FALSE]

(* The clock value that line 295 read in this iteration. *)
ReadAtLos(th) == th.current_los[1] + th.active[th.idx].admission_date[1]

(* Lines 302-311: the next snapshot replaces the cache entry and is stored. *)
(* The arguments of add_tracking_record are evaluated before the call, so    *)
(* the datetime.now() of line 308 is the clock at some moment between the    *)
(* read of line 295 and the commit of the INSERT.                            *)
AppendRecord(t) ==
    LET th == threads[t]
        patient == th.active[th.idx]
    IN  /\ th.pc = "append"
        /\ appended < MaxAppends
        /\ appended' = appended + 1
        /\ \E z \in PDraws, tracking_date \in ReadAtLos(th)..now :
              LET vital_signs == generate_vital_signs(<<th.cache[patient.id]>>, z)
              IN  /\ los_tracking' = add_tracking_record(los_tracking, patient.id,
                                                         tracking_date,
                                                         th.current_los, vital_signs)
                  /\ threads' = [threads EXCEPT ![t] =
                         NextRow(th, (patient.id :> vital_signs) @@ th.cache)]
        /\ UNCHANGED ret
        /\ UNCHANGED <<patients, now, session_state, running, monitor_thread, joining, faults>>

(* add_tracking_record raises after line 303 replaced the cache entry. *)
AppendError(t) ==
    LET th == threads[t]
        patient == th.active[th.idx]
    IN  /\ th.pc = "append"
        /\ faults < MaxFaults
        /\ faults' = faults + 1
        /\ \E z \in PDraws :
              LET vital_signs == generate_vital_signs(<<th.cache[patient.id]>>, z)
              IN  threads' = [threads EXCEPT ![t] =
                      [Sleep(th, SleepBackoff, TRUE) EXCEPT
                          !.cache = (patient.id :> vital_signs) @@ th.cache]]
        /\ UNCHANGED ret
        /\ UNCHANGED <<patients, los_tracking, now, session_state, running, monitor_thread,
                       joining, appended>>

Next ==
    \/ \E m \in Monitors, seed \in Seeds : Main(m, seed)
    \/ \E m \in Monitors : Start(m)
    \/ \E m \in Monitors : Stop(m)
    \/ \E m \in Monitors : StopReturn(m)
    \/ \E t \in Threads : LoopTop(t)
    \/ \E t \in Threads : FetchError(t)
    \/ \E t \in Threads : Baseline(t)
    \/ \E t \in Threads : AppendRecord(t)
    \/ \E t \in Threads : AppendError(t)
    \/ \E p \in AppInputs : Admit(p)
    \/ Tick

Spec == Init /\ [][Next]_vars

---------------------------------------------------------------------------
(* Properties *)

RECURSIVE SumOver(_, _)
SumOver(S, f) ==
    IF S = {} THEN 0
    ELSE LET x == CHOOSE y \in S : TRUE IN f[x] + SumOver(S \ {x}, f)

IsPrefix(a, b) == Len(a) <= Len(b) /\ SubSeq(b, 1, Len(a)) = a

Stepped(t) == threads'[t] # threads[t]

Alive(t) == threads[t].pc \notin {"unborn", "exited"}

(* C1: add_patient with an ID already in the patients table fails with the  *)
(* duplicate-key error (sqlite3.IntegrityError) and leaves both tables as    *)
(* they were.                                                                *)
C1_DuplicateAddFails ==
    [][(ret'.op = "add_patient" /\ HasId(patients, ret'.id))
          => (/\ ret'.exc = "IntegrityError"
              /\ patients' = patients
              /\ los_tracking' = los_tracking)]_vars

C1_Witness ==
    /\ ret.op = "add_patient"
    /\ ret.exc = "IntegrityError"
    /\ HasId(patients, ret.id)

(* C2: the stores are append-only: no step removes or changes a stored      *)
(* patient or tracking row.                                                  *)
C2_AppendOnly ==
    [][IsPrefix(patients, patients') /\ IsPrefix(los_tracking, los_tracking')]_vars

(* C3: after stop() a cycle in flight runs to completion, no new cycle is   *)
(* started, and stop() returns only once the monitor's loop has exited.      *)
C3_StopWaitsForLoop ==
    [][\A t \in Threads :
          /\ (threads[t].pc \in {"iter", "append"} => threads'[t].pc # "exited")
          /\ (Alive(t) /\ ~running[threads[t].owner] /\ ~running'[threads[t].owner]
                 /\ threads[t].pc \in {"top", "sleep"} /\ Stepped(t)
                 => threads'[t].pc = "exited")
          /\ (threads[t].owner # 0 /\ joining[threads[t].owner] # 0
                 /\ joining'[threads[t].owner] = 0
                 => threads'[t].pc = "exited")]_vars

(* C4: an error raised in a cycle is caught in the loop: the thread stays   *)
(* alive, sleeps the 1-minute backoff, then attempts another cycle while the *)
(* flag is set; the thread exits only when stop() has cleared the flag.      *)
C4_ErrorsKeepLoopRunning ==
    [][\A t \in Threads :
          /\ (faults' # faults /\ Stepped(t)
                 => /\ threads'[t].pc = "sleep"
                    /\ threads'[t].exc
                    /\ threads'[t].secs = SleepBackoff)
          /\ (threads[t].pc = "sleep" /\ threads[t].exc
                 => threads[t].secs = SleepBackoff)
          /\ (threads[t].pc = "sleep" /\ threads[t].exc /\ Stepped(t)
                 /\ running[threads[t].owner]
                 => threads'[t].pc \in {"iter", "sleep"})
          /\ (Alive(t) /\ threads'[t].pc = "exited"
                 => ~running[threads[t].owner])]_vars

(* The only thread ever started is in a later cycle after an error. *)
C4_Witness ==
    \E t \in Threads :
        /\ \A u \in Threads : u # t => threads[u].pc = "unborn"
        /\ faults > 0
        /\ running[threads[t].owner]
        /\ threads[t].pc = "append"

(* C5: at most one monitoring loop is running at any time. *)
C5_SingleWriter == Cardinality({t \in Threads : Alive(t)}) <= 1

(* The step in which thread t stores the record of a cycle over one active  *)
(* patient whose baseline line 299 has just drawn.                           *)
FirstRecordStep(t) ==
    /\ threads[t].pc = "append"
    /\ threads[t].fresh
    /\ Len(threads[t].active) = 1
    /\ Stepped(t)
    /\ appended' # appended

(* C6 as stated: the record of a cycle over a single active patient with no *)
(* cached baseline carries the fresh snapshot itself.                        *)
C6_FirstRecordIsFresh ==
    [][\A t \in Threads :
          FirstRecordStep(t)
             => LET id == threads[t].active[1].id
                IN  /\ Len(los_tracking') = Len(los_tracking) + 1
                    /\ los_tracking'[Len(los_tracking')].vital_signs
                          = Str(threads[t].cache[id])]_vars

(* C6 as amended: that cycle appends exactly one record, for that patient,  *)
(* and its vital signs are one perturbation step away from the fresh         *)
(* snapshot drawn as the baseline.                                           *)
C6_FirstRecordIsPerturbedFresh ==
    [][\A t \in Threads :
          FirstRecordStep(t)
             => LET id == threads[t].active[1].id
                    base == threads[t].cache[id]
                    row == los_tracking'[Len(los_tracking')]
                IN  /\ los_tracking' = Append(los_tracking, row)
                    /\ row.patient_id = id
                    /\ base \in {FreshVitals(z) : z \in Draws}
                    /\ Eval(row.vital_signs) \in {PerturbedVitals(base, z) : z \in PDraws}
                    /\ threads'[t].cache[id] = Eval(row.vital_signs)
                    /\ threads'[t].pc = "sleep"
                    /\ threads'[t].secs = SleepInterval]_vars

C6_Witness ==
    \E t \in Threads :
        /\ threads[t].pc = "sleep"
        /\ ~threads[t].exc
        /\ appended = 1
        /\ faults = 0
        /\ Cardinality(DOMAIN threads[t].cache) = 1
        /\ LET row == los_tracking[Len(los_tracking)]
           IN  /\ row.patient_id \in DOMAIN threads[t].cache
               /\ threads[t].cache[row.patient_id] = Eval(row.vital_signs)
               /\ Eval(row.vital_signs) \in
                     {PerturbedVitals(FreshVitals(z), y) : z \in Draws, y \in PDraws}

HasTracking(id) == \E j \in DOMAIN los_tracking : los_tracking[j].patient_id = id

JoinRows(i) ==
    LET join == LosJoin(patients, los_tracking, 1, 1)
    IN  {k \in DOMAIN join : join[k][1] = i}

(* C7: get_los_distribution has exactly one row for every active patient    *)
(* with a tracking record, none for any other patient, and the row carries   *)
(* the current_los of the patient's maximum-timestamp record.                *)
C7_OneRowPerActivePatient ==
    LET join == LosJoin(patients, los_tracking, 1, 1)
        dist == get_los_distribution(patients, los_tracking)
    IN  /\ Len(dist) = Len(join)
        /\ \A i \in DOMAIN patients :
              /\ Cardinality(JoinRows(i))
                    = IF IsActive(patients[i]) /\ HasTracking(patients[i].id) THEN 1 ELSE 0
              /\ \A k \in JoinRows(i) :
                    LET t == los_tracking[join[k][2]]
                    IN  /\ dist[k].current_los = t.current_los
                        /\ t.patient_id = patients[i].id
                        /\ \A j \in DOMAIN los_tracking :
                              los_tracking[j].patient_id = patients[i].id
                                 => ~TextLess(t.tracking_date, los_tracking[j].tracking_date)

(* C8: every tracking row written by the sample generator or the loop has   *)
(* current_los = (tracking timestamp - admission of the owning patient) in   *)
(* days, and the value is not negative.                                      *)
C8_LosMatchesTimestamps ==
    \A j \in DOMAIN los_tracking :
        \E i \in DOMAIN patients :
            /\ patients[i].id = los_tracking[j].patient_id
            /\ los_tracking[j].current_los
                  = TotalDays(ParseIso(los_tracking[j].tracking_date)
                              - ParseIso(patients[i].admission_date))
            /\ los_tracking[j].current_los[1] >= 0

ActiveIn(d) ==
    {i \in DOMAIN patients : patients[i].status = "Active" /\ patients[i].department = d}

(* C9: get_department_stats has one row per department with an active      *)
(* patient and no other row; patient_count is the number of active patients  *)
(* of the department and the two averages are the means over them.           *)
C9_DepartmentStats ==
    LET stats == get_department_stats(patients)
        depts == {patients[i].department : i \in DOMAIN patients}
                     \cup {stats[g].department : g \in DOMAIN stats}
    IN  \A d \in depts :
            LET rows == {g \in DOMAIN stats : stats[g].department = d}
                n == Cardinality(ActiveIn(d))
            IN  /\ Cardinality(rows) = IF n = 0 THEN 0 ELSE 1
                /\ \A g \in rows :
                      /\ stats[g].patient_count = n
                      /\ stats[g].avg_predicted_los
                            = <<SumOver(ActiveIn(d), [i \in DOMAIN patients |->
                                                         patients[i].predicted_los]), n>>
                      /\ stats[g].avg_severity
                            = <<SumOver(ActiveIn(d), [i \in DOMAIN patients |->
                                                         patients[i].severity]), n>>

C9_Witness ==
    /\ \E g \in DOMAIN get_department_stats(patients) :
          get_department_stats(patients)[g].patient_count = 2
    /\ Len(get_department_stats(patients)) = 2
    /\ \E i \in DOMAIN patients : patients[i].status # "Active"

(* C10: every stored patient has predicted LOS > 0, severity in 1..5, and a *)
(* discharge timestamp exactly when the status is not Active, which is then  *)
(* not before the admission.                                                 *)
C10_PatientInvariants ==
    \A i \in DOMAIN patients :
        /\ patients[i].predicted_los > 0
        /\ patients[i].severity \in MinSeverity..MaxSeverity
        /\ (patients[i].discharge_date # None) <=> (patients[i].status # "Active")
        /\ patients[i].discharge_date # None
              => ~TextLess(patients[i].discharge_date, patients[i].admission_date)

StoredIds == {patients[i].id : i \in DOMAIN patients}

(* The attributes get_patient_data is expected to return for the Patient p. *)
AttributesOf(p) == <<[p EXCEPT !.admission_date = <<p.admission_date>>]>>

(* C11: get_patient_data(id) returns the attributes of the patient inserted *)
(* with that ID: it does so right after the add_patient that succeeded, and  *)
(* no later operation changes what it returns for a stored ID.               *)
C11_RoundTrip ==
    [][/\ \A p \in PatientInputs :
            (AddPatient(p) /\ ret'.exc = "none")
               => get_patient_data(patients', los_tracking', p.id)[1] = AttributesOf(p)
       /\ \A id \in StoredIds :
            get_patient_data(patients', los_tracking', id)[1]
               = get_patient_data(patients, los_tracking, id)[1]]_vars

TrackedIds(trk) == {trk[j].patient_id : j \in DOMAIN trk}

RowsOf(trk, id) == {j \in DOMAIN trk : trk[j].patient_id = id}

Count(h, x) == Cardinality({k \in DOMAIN h : h[k] = x})

(* The history entry expected for a stored tracking row. *)
Entry(tracking_date, current_los, vital_signs) ==
    [tracking_date |-> <<tracking_date>>, current_los |-> current_los,
     vital_signs |-> Str(vital_signs)]

(* The history of every patient ID holds the stored rows of that ID, each   *)
(* as often as it is stored, and nothing else, in ascending timestamp order. *)
HistoryOfStoredRows(tbl, trk) ==
    \A id \in TrackedIds(trk) \cup {tbl[i].id : i \in DOMAIN tbl} :
        LET h == get_patient_data(tbl, trk, id)[2]
        IN  /\ Len(h) = Cardinality(RowsOf(trk, id))
            /\ \A j \in RowsOf(trk, id) :
                  LET x == [tracking_date |-> <<ParseIso(trk[j].tracking_date)>>,
                            current_los |-> trk[j].current_los,
                            vital_signs |-> trk[j].vital_signs]
                  IN  Count(h, x) = Cardinality({i \in RowsOf(trk, id) : trk[i] = trk[j]})
            /\ \A k \in 1..(Len(h) - 1) : h[k].tracking_date[1] <= h[k + 1].tracking_date[1]

(* C12: the history returned for a patient ID holds exactly the tracking    *)
(* records added for that ID, each with the timestamp and current_los it was *)
(* added with, no record of another patient, in ascending timestamp order:   *)
(* add_tracking_record puts its record once more into the history of its     *)
(* patient ID and changes no other history.                                  *)
C12_TrackingHistory ==
    [][/\ HistoryOfStoredRows(patients', los_tracking')
       /\ \A in \in TrackingInputs :
            AddTrackingRecord(in)
               => \A id \in TrackedIds(los_tracking') :
                     LET h == get_patient_data(patients, los_tracking, id)[2]
                         g == get_patient_data(patients', los_tracking', id)[2]
                         x == Entry(in[2], in[3], in[4])
                     IN  /\ id # in[1] => g = h
                         /\ id = in[1] =>
                               /\ Count(g, x) = Count(h, x) + 1
                               /\ Len(g) = Len(h) + 1
                               /\ \A k \in DOMAIN h : Count(g, h[k]) >= Count(h, h[k])]_vars

(* The history of TEST001 holds two records that were added in descending   *)
(* timestamp order, and a record of another patient is stored.               *)
C12_Witness ==
    LET h == get_patient_data(patients, los_tracking, "TEST001")[2]
    IN  /\ ret.op = "add_tracking_record"
        /\ Len(h) = 2
        /\ h # get_patient_data_unordered(patients, los_tracking, "TEST001")[2]
        /\ h[1].tracking_date[1] < h[2].tracking_date[1]
        /\ RowsOf(los_tracking, "TEST002") # {}

ActiveRows == {i \in DOMAIN patients : patients[i].status = "Active"}

(* C13: get_all_active_patients returns the stored patients with status     *)
(* Active, each once and with its stored attributes, no patient with another *)
(* status, in descending order of the admission timestamp.                   *)
C13_ActivePatientsListed ==
    LET res == get_all_active_patients(patients)
    IN  /\ Len(res) = Cardinality(ActiveRows)
        /\ \A i \in ActiveRows :
              Cardinality({k \in DOMAIN res : res[k].id = patients[i].id}) = 1
        /\ \A k \in DOMAIN res :
              /\ res[k].status = "Active"
              /\ \E i \in ActiveRows :
                    res[k] = [patients[i] EXCEPT
                                 !.admission_date = <<ParseIso(patients[i].admission_date)>>,
                                 !.discharge_date =
                                     IF patients[i].discharge_date = None THEN None
                                     ELSE <<ParseIso(patients[i].discharge_date)>>]
        /\ \A i \in DOMAIN patients \ ActiveRows :
              \A k \in DOMAIN res : res[k].id # patients[i].id
        /\ \A k \in 1..(Len(res) - 1) :
              res[k].admission_date[1] >= res[k + 1].admission_date[1]

(* Two active patients are listed in another order than they were inserted, *)
(* and a patient with another status is stored.                              *)
C13_Witness ==
    LET res == get_all_active_patients(patients)
    IN  /\ Len(res) = 2
        /\ res[1].admission_date[1] > res[2].admission_date[1]
        /\ res # get_all_active_patients_rowid(patients)
        /\ \E i \in DOMAIN patients : patients[i].status = "Discharged"

(* C14: every snapshot the sample generator or the monitoring loop stored,  *)
(* and every snapshot a loop holds as a baseline, has oxygen_saturation of   *)
(* at most 100.                                                              *)
C14_OxygenAtMost100 ==
    /\ \A j \in DOMAIN los_tracking :
          Eval(los_tracking[j].vital_signs).oxygen_saturation <= OxygenCap
    /\ \A t \in Threads : \A id \in DOMAIN threads[t].cache :
          threads[t].cache[id].oxygen_saturation <= OxygenCap

(* A loop stored a snapshot whose perturbation was cut at 100, next to a    *)
(* backfill snapshot below 100.                                              *)
C14_Witness ==
    /\ appended > 0
    /\ Len(los_tracking) > 1
    /\ Eval(los_tracking[Len(los_tracking)].vital_signs).oxygen_saturation = OxygenCap
    /\ Eval(los_tracking[1].vital_signs).oxygen_saturation < OxygenCap
    /\ \E t \in Threads : \E id \in DOMAIN threads[t].cache : \E z \in PDraws :
          /\ threads[t].cache[id].oxygen_saturation = OxygenCap
          /\ threads[t].cache[id].oxygen_saturation + normalvariate(0, 1, z[4]) > OxygenCap

OneStepFrom(b) == {PerturbedVitals(b, z) : z \in PDraws}

(* A single loop has run since the store was set up: its records are the    *)
(* last `appended` rows of los_tracking.                                     *)
SingleLoop ==
    Cardinality({t \in Threads : threads[t].pc # "unborn"}) = 1

LoopRows == (Len(los_tracking) - appended + 1)..Len(los_tracking)

(* Row j2 is the loop's next record of the patient of row j1. *)
NextLoopRow(j1, j2) ==
    /\ j1 < j2
    /\ los_tracking[j1].patient_id = los_tracking[j2].patient_id
    /\ \A j \in LoopRows :
          (j1 < j /\ j < j2) => los_tracking[j].patient_id # los_tracking[j1].patient_id

(* C15 as stated: each record of a loop after the patient's first is one    *)
(* perturbation step away from the loop's preceding record of that patient,  *)
(* also after a cycle that ended in an error.                                *)
C15_RecordsOneStepApart ==
    SingleLoop =>
       \A j1, j2 \in LoopRows :
          NextLoopRow(j1, j2)
             => Eval(los_tracking[j2].vital_signs)
                   \in OneStepFrom(Eval(los_tracking[j1].vital_signs))

(* C15 as amended: the baseline of a record is the loop's cache entry of    *)
(* the patient. The entry is drawn fresh when the patient is new to the      *)
(* loop, replaced by one perturbation step of itself whenever an append is   *)
(* attempted, whether the record gets stored or the append fails, and is     *)
(* left alone by every other step; a stored record is the new entry. With no *)
(* failed append, consecutive records of a patient are one step apart.       *)
C15_BaselineIsCacheEntry ==
    [][/\ \A t \in Threads :
            LET th == threads[t]
                id == th.active[th.idx].id
                attempt == th.pc = "append" /\ Stepped(t)
                row == los_tracking'[Len(los_tracking')]
            IN  /\ attempt =>
                      /\ threads'[t].cache[id] \in OneStepFrom(th.cache[id])
                      /\ \A x \in DOMAIN th.cache \ {id} :
                            threads'[t].cache[x] = th.cache[x]
                      /\ faults' = faults =>
                            /\ los_tracking' = Append(los_tracking, row)
                            /\ row.patient_id = id
                            /\ Eval(row.vital_signs) = threads'[t].cache[id]
                      /\ faults' # faults => los_tracking' = los_tracking
                /\ (th.pc = "iter" /\ Stepped(t)) =>
                      /\ \A x \in DOMAIN th.cache : threads'[t].cache[x] = th.cache[x]
                      /\ id \notin DOMAIN th.cache =>
                            threads'[t].cache[id] \in {FreshVitals(z) : z \in Draws}
                      /\ DOMAIN threads'[t].cache = DOMAIN th.cache \cup {id}
                /\ (th.pc \in {"top", "sleep"} /\ threads'[t].pc # "exited") =>
                      threads'[t].cache = th.cache
       /\ (SingleLoop' /\ faults' = 0) => C15_RecordsOneStepApart']_vars

(* A loop stored a record, failed to store the next snapshot of the patient *)
(* and then stored a record two perturbation steps away from the first.      *)
C15_Witness ==
    /\ SingleLoop
    /\ faults = 1
    /\ appended = 2
    /\ \E j1, j2 \in LoopRows :
          /\ NextLoopRow(j1, j2)
          /\ \E b \in OneStepFrom(Eval(los_tracking[j1].vital_signs)) :
                Eval(los_tracking[j2].vital_signs) \in OneStepFrom(b)
          /\ Eval(los_tracking[j2].vital_signs)
                \notin OneStepFrom(Eval(los_tracking[j1].vital_signs))

IdsOf(rows) == {rows[k].id : k \in DOMAIN rows}

(* C16: a cycle walks once through the list it fetched, which holds every   *)
(* patient that is Active at the fetch exactly once: each step of the walk   *)
(* appends one record, for the patient at the current position, and moves to *)
(* the next position; the cycle completes without error only after the last *)
(* position; nothing else appends to los_tracking.                           *)
C16_OneRecordPerActivePatient ==
    [][/\ \A t \in Threads :
            LET th == threads[t]
                nx == threads'[t]
                row == los_tracking'[Len(los_tracking')]
            IN  /\ (th.pc \in {"top", "sleep"} /\ nx.pc = "iter") =>
                      /\ nx.active = get_all_active_patients(patients)
                      /\ nx.idx = 1
                      /\ Cardinality(IdsOf(nx.active)) = Len(nx.active)
                      /\ IdsOf(nx.active) = {patients[i].id : i \in ActiveRows}
                      /\ los_tracking' = los_tracking
                /\ (th.pc \in {"top", "sleep"} /\ Stepped(t) /\ nx.pc = "sleep" /\ ~nx.exc) =>
                      /\ ActiveRows = {}
                      /\ los_tracking' = los_tracking
                /\ (th.pc = "iter" /\ Stepped(t)) =>
                      /\ nx.pc = "append"
                      /\ nx.active = th.active
                      /\ nx.idx = th.idx
                      /\ los_tracking' = los_tracking
                /\ (th.pc = "append" /\ Stepped(t) /\ faults' = faults) =>
                      /\ los_tracking' = Append(los_tracking, row)
                      /\ row.patient_id = th.active[th.idx].id
                      /\ IF th.idx < Len(th.active)
                         THEN /\ nx.pc = "iter"
                              /\ nx.idx = th.idx + 1
                              /\ nx.active = th.active
                         ELSE /\ nx.pc = "sleep"
                              /\ ~nx.exc
                              /\ nx.secs = SleepInterval
                /\ (th.pc = "append" /\ Stepped(t) /\ faults' # faults) =>
                      /\ nx.pc = "sleep"
                      /\ nx.exc
                      /\ los_tracking' = los_tracking
                /\ th.pc \in {"iter", "append"} => nx.pc \in {"iter", "append", "sleep"}
       /\ los_tracking' # los_tracking =>
             \/ session_state' # session_state
             \/ \E t \in Threads : threads[t].pc = "append" /\ Stepped(t)]_vars

(* One loop completed a cycle over two active patients: a record for each,  *)
(* none for the discharged patient.                                          *)
C16_Witness ==
    /\ SingleLoop
    /\ faults = 0
    /\ appended = 2
    /\ \E t \in Threads :
          /\ threads[t].pc = "sleep"
          /\ ~threads[t].exc
          /\ Cardinality(DOMAIN threads[t].cache) = 2
    /\ Cardinality(ActiveRows) = 2
    /\ {los_tracking[j].patient_id : j \in LoopRows} = {patients[i].id : i \in ActiveRows}
    /\ \E i \in DOMAIN patients :
          /\ patients[i].status = "Discharged"
          /\ RowsOf(los_tracking, patients[i].id) = {}

(* C17: for every patient, the tracking records in insertion order have     *)
(* non-decreasing tracking timestamps.                                       *)
C17_TimestampsNonDecreasing ==
    \A j1, j2 \in DOMAIN los_tracking :
        (j1 < j2 /\ los_tracking[j1].patient_id = los_tracking[j2].patient_id)
           => ParseIso(los_tracking[j1].tracking_date)
                 <= ParseIso(los_tracking[j2].tracking_date)

====
